---- MODULE Spec2Model ----
(***************************************************************************)
(* FitAI: the App component (src/App.tsx), the extraction client           *)
(* (src/services/geminiService.ts) and the persistence client              *)
(* (src/services/supabaseService.ts), as one state machine.                *)
(*                                                                         *)
(* Every asynchronous handler invocation is a task: a record that holds    *)
(* the values its closure captured at the render in which it was started   *)
(* and its position (pc) between two awaits.  The remote services (the AI  *)
(* service, the store) answer nondeterministically.                        *)
(***************************************************************************)
EXTENDS Integers, Sequences, FiniteSets, TLC

(***************************************************************************)
(* Bounds of the model.                                                    *)
(***************************************************************************)
\* handler invocations the user starts (the mount effect's load is extra)
MaxOps == 2
\* clock units per UTC calendar day
DayLen == 4

(***************************************************************************)
(* JavaScript values: undefined, null, numbers, strings.                   *)
(***************************************************************************)
Undefined == [t |-> "undefined"]

Null == [t |-> "null"]

Num(n) == [t |-> "number", n |-> n]

Str(s) == [t |-> "string", s |-> s]

IsNumber(v) == v.t = "number"

\* JS truthiness of the values that occur: '' , null and undefined are falsy
Truthy(v) ==
  CASE v.t = "undefined" -> FALSE
    [] v.t = "null" -> FALSE
    [] v.t = "string" -> v.s # ""
    [] v.t = "number" -> v.n # 0
    [] v.t = "json" -> TRUE

\* a || b
OrElse(a, b) == IF Truthy(a) THEN a ELSE b

\* `${v}` : a value inside a template literal
TemplateStr(v) ==
  CASE v.t = "undefined" -> "undefined"
    [] v.t = "null" -> "null"
    [] v.t = "string" -> v.s
    [] v.t = "number" -> ToString(v.n)

\* the texts a user types
Texts == {"", "2 eggs"}

\* String.prototype.trim: texts of white space only become ''
Trim(s) == IF s \in {" ", "  "} THEN "" ELSE s

\* the data URIs a FileReader produces
Images == {"data:image/jpeg;base64,AAAA"}

\* new Date(t).toISOString().split('T')[0] : the UTC calendar day of t
ISODate(t) == "day" \o ToString(t \div DayLen)

(***************************************************************************)
(* USER_PROFILE (only the goals are read by the modelled code).            *)
(***************************************************************************)
USER_PROFILE == [calorieGoal |-> 1800, proteinGoal |-> 150]

(***************************************************************************)
(* The AI service.  A response either makes generateContent throw or       *)
(* carries response.text: undefined, '', text that is not JSON, or the     *)
(* JSON text of an object.  An object is a record over the fields the code *)
(* reads; an absent field reads as undefined.                              *)
(***************************************************************************)
MealDoc(name, calories, protein, carbs, fat) ==
  [name |-> name, calories |-> calories, protein |-> protein,
   carbs |-> carbs, fat |-> fat]

WorkoutDoc(name, caloriesBurned, durationMinutes, intensity) ==
  [name |-> name, caloriesBurned |-> caloriesBurned,
   durationMinutes |-> durationMinutes, intensity |-> intensity]

\* {} : every field absent
EmptyMealDoc == MealDoc(Undefined, Undefined, Undefined, Undefined, Undefined)

EmptyWorkoutDoc == WorkoutDoc(Undefined, Undefined, Undefined, Undefined)

\* the (non-empty) string that is the JSON text of an object
JsonText(doc) == [t |-> "json", doc |-> doc]

\* the objects the service may answer a meal request with: one that follows
\* the schema, one without calories and with a string for protein
MealDocs ==
  { MealDoc(Str("eggs"), Num(3), Num(2), Num(1), Num(1)),
    MealDoc(Str("toast"), Undefined, Str("ten"), Num(2), Num(0)) }

\* likewise for a workout: the last one names an intensity outside the enum
WorkoutDocs ==
  { WorkoutDoc(Str("run"), Num(2), Num(30), Str("High")),
    WorkoutDoc(Str("climb"), Num(4), Num(20), Str("Extreme")) }

\* response.text of a request, for a set of possible objects
ResponseTexts(docs) ==
  {Undefined, Str(""), Str("not json")} \cup {JsonText(d) : d \in docs}

\* JSON.parse(text): throws unless text is the JSON text of an object
JSONParse(text, emptyDoc) ==
  IF text.t = "json" THEN [throws |-> FALSE, value |-> text.doc]
  ELSE IF text = Str("{}") THEN [throws |-> FALSE, value |-> emptyDoc]
  ELSE [throws |-> TRUE, value |-> Undefined]

\* JSON.parse(response.text || '{}')
ParseResponse(text, emptyDoc) == JSONParse(OrElse(text, Str("{}")), emptyDoc)

\* the generation config of each request: temperature in tenths, and
\* whether a responseSchema is sent
analyzeMealConfig == [temperature |-> 0, responseSchema |-> TRUE]

analyzeMealWithImageConfig == [temperature |-> 0, responseSchema |-> TRUE]

analyzeWorkoutConfig == [temperature |-> 0, responseSchema |-> TRUE]

getDailyInsightConfig == [temperature |-> 0, responseSchema |-> FALSE]

getDietaryAdviceConfig == [temperature |-> 7, responseSchema |-> FALSE]

\* analyzeMeal / analyzeMealWithImage: the call throws or the parse decides
analyzeMeal(serviceThrows, text) ==
  IF serviceThrows THEN [throws |-> TRUE, value |-> Undefined]
  ELSE ParseResponse(text, EmptyMealDoc)

analyzeMealWithImage(serviceThrows, text) ==
  IF serviceThrows THEN [throws |-> TRUE, value |-> Undefined]
  ELSE ParseResponse(text, EmptyMealDoc)

analyzeWorkout(serviceThrows, text) ==
  IF serviceThrows THEN [throws |-> TRUE, value |-> Undefined]
  ELSE ParseResponse(text, EmptyWorkoutDoc)

(***************************************************************************)
(* The store: two tables of rows in insertion order.  A column written     *)
(* with undefined is left out of the request body and reads back as null.  *)
(***************************************************************************)
ToColumn(v) == IF v = Undefined THEN Null ELSE v

\* the identifier the store assigns to its n-th inserted row
StoreId(n) == "r" \o ToString(n)

\* .select('*').eq('date', date)
StoreSelectByDate(table, date) ==
  LET OfDate(r) == r.date = date IN SelectSeq(table, OfDate)

\* .delete().eq('id', id)
StoreDeleteById(table, id) ==
  LET Other(r) == r.id # id IN SelectSeq(table, Other)

\* the answer { data, error } of a query
QueryResult(error, data) == [error |-> error, data |-> data]

(***************************************************************************)
(* The persistence client (supabaseService.ts).                            *)
(***************************************************************************)
\* {...m, originalText: m.original_text}
MealFromRow(m) ==
  [id |-> m.id, name |-> m.name, original_text |-> m.original_text,
   calories |-> m.calories, protein |-> m.protein, carbs |-> m.carbs,
   fat |-> m.fat, timestamp |-> m.timestamp, date |-> m.date,
   originalText |-> m.original_text]

\* a mapping that reads caloriesBurned from duration_minutes
WorkoutFromRowSwapped(w) ==
  [id |-> w.id, name |-> w.name, original_text |-> w.original_text,
   calories_burned |-> w.calories_burned,
   duration_minutes |-> w.duration_minutes, intensity |-> w.intensity,
   timestamp |-> w.timestamp, date |-> w.date,
   originalText |-> w.original_text,
   caloriesBurned |-> w.duration_minutes,
   durationMinutes |-> w.duration_minutes]

\* {...w, originalText: ..., caloriesBurned: ..., durationMinutes: ...}
WorkoutFromRow(w) ==
  [id |-> w.id, name |-> w.name, original_text |-> w.original_text,
   calories_burned |-> w.calories_burned,
   duration_minutes |-> w.duration_minutes, intensity |-> w.intensity,
   timestamp |-> w.timestamp, date |-> w.date,
   originalText |-> w.original_text,
   caloriesBurned |-> w.calories_burned,
   durationMinutes |-> w.duration_minutes]

MapSeq(s, F(_)) == [i \in 1..Len(s) |-> F(s[i])]

EmptyDay(date) ==
  [date |-> date, meals |-> <<>>, workouts |-> <<>>,
   calorieGoal |-> 1800, proteinGoal |-> 150]

\* fetchDailyData that tests mealsError only
fetchDailyDataMealsErrorOnly(date, mealsRes, workoutsRes) ==
  IF mealsRes.error
  THEN EmptyDay(date)
  ELSE [date |-> date,
        meals |-> MapSeq(mealsRes.data, MealFromRow),
        workouts |-> MapSeq(workoutsRes.data, WorkoutFromRow),
        calorieGoal |-> 1800, proteinGoal |-> 150]

\* fetchDailyData that keeps the records of the query that succeeded
fetchDailyDataKeepsGoodHalf(date, mealsRes, workoutsRes) ==
  [date |-> date,
   meals |-> IF mealsRes.error THEN <<>>
             ELSE MapSeq(mealsRes.data, MealFromRow),
   workouts |-> IF workoutsRes.error THEN <<>>
                ELSE MapSeq(workoutsRes.data, WorkoutFromRow),
   calorieGoal |-> 1800, proteinGoal |-> 150]

\* fetchDailyData(date), from the answers of its two queries
fetchDailyData(date, mealsRes, workoutsRes) ==
  IF mealsRes.error \/ workoutsRes.error
  THEN EmptyDay(date)
  ELSE [date |-> date,
        meals |-> MapSeq(mealsRes.data, MealFromRow),
        workouts |-> MapSeq(workoutsRes.data, WorkoutFromRow),
        calorieGoal |-> 1800, proteinGoal |-> 150]

\* an insert body that writes the protein into the calories column
MealInsertBodyCaloriesFromProtein(meal, date) ==
  [name |-> ToColumn(meal.name), original_text |-> ToColumn(meal.originalText),
   calories |-> ToColumn(meal.protein), protein |-> ToColumn(meal.protein),
   carbs |-> ToColumn(meal.carbs), fat |-> ToColumn(meal.fat),
   timestamp |-> meal.timestamp, date |-> date]

\* the row addMealRecord(meal, date) asks the store to insert
MealInsertBody(meal, date) ==
  [name |-> ToColumn(meal.name), original_text |-> ToColumn(meal.originalText),
   calories |-> ToColumn(meal.calories), protein |-> ToColumn(meal.protein),
   carbs |-> ToColumn(meal.carbs), fat |-> ToColumn(meal.fat),
   timestamp |-> meal.timestamp, date |-> date]

\* the row addWorkoutRecord(workout, date) asks the store to insert
WorkoutInsertBody(workout, date) ==
  [name |-> ToColumn(workout.name),
   original_text |-> ToColumn(workout.originalText),
   calories_burned |-> ToColumn(workout.caloriesBurned),
   duration_minutes |-> ToColumn(workout.durationMinutes),
   intensity |-> ToColumn(workout.intensity),
   timestamp |-> workout.timestamp, date |-> date]

\* the stored row: the body plus the store-assigned identifier
MealRow(id, body) ==
  [id |-> id, name |-> body.name, original_text |-> body.original_text,
   calories |-> body.calories, protein |-> body.protein, carbs |-> body.carbs,
   fat |-> body.fat, timestamp |-> body.timestamp, date |-> body.date]

WorkoutRow(id, body) ==
  [id |-> id, name |-> body.name, original_text |-> body.original_text,
   calories_burned |-> body.calories_burned,
   duration_minutes |-> body.duration_minutes, intensity |-> body.intensity,
   timestamp |-> body.timestamp, date |-> body.date]

\* addMealRecord without "if (error) throw error"
addRecordReturnSwallowsError(res) ==
  IF res.error \/ res.data = <<>> THEN [throws |-> FALSE, value |-> Undefined]
  ELSE [throws |-> FALSE, value |-> res.data[1]]

\* if (error) throw error; return data?.[0];
addRecordReturn(res) ==
  IF res.error THEN [throws |-> TRUE, value |-> Undefined]
  ELSE IF res.data = <<>> THEN [throws |-> FALSE, value |-> Undefined]
  ELSE [throws |-> FALSE, value |-> res.data[1]]

\* if (error) throw error;
deleteRecordReturn(res) ==
  IF res.error THEN [throws |-> TRUE, value |-> Undefined]
  ELSE [throws |-> FALSE, value |-> Undefined]

(***************************************************************************)
(* State.                                                                  *)
(***************************************************************************)
VARIABLES
  now,              \* the clock: every Date.now() reads a later time
  todayStr,         \* useMemo(() => new Date().toISOString().split('T')[0], [])
  history,          \* useState<DailyStats[]>
  isLoggingMeal,
  isLoggingWorkout,
  inputText,
  isAnalyzing,
  dailyInsight,
  isLoading,
  selectedImage,    \* null or a data URI
  meals,            \* the store's table 'meals'
  workouts,         \* the store's table 'workouts'
  nextId,           \* the store's identifier sequence
  tasks,            \* the handler invocations in flight, oldest first
  started,          \* how many handlers the user has started
  alerts,           \* the messages shown with alert(), oldest first
  lastDone          \* the handler invocation that finished last

vars ==
  <<now, todayStr, history, isLoggingMeal, isLoggingWorkout, inputText,
    isAnalyzing, dailyInsight, isLoading, selectedImage, meals, workouts,
    nextId, tasks, started, alerts, lastDone>>

uiVars == <<isLoggingMeal, isLoggingWorkout, inputText, selectedImage>>

storeVars == <<meals, workouts, nextId>>

(***************************************************************************)
(* Module evaluation: what the two service modules do with the environment *)
(* before the application is mounted.                                      *)
(***************************************************************************)
\* the environments: which of the three variables are set
Envs ==
  [VITE_GEMINI_API_KEY : BOOLEAN, VITE_SUPABASE_URL : BOOLEAN,
   VITE_SUPABASE_ANON_KEY : BOOLEAN]

\* supabaseService.ts: if (!supabaseUrl || !supabaseAnonKey) console.error(...)
supabaseStartupLog(env) ==
  IF ~env.VITE_SUPABASE_URL \/ ~env.VITE_SUPABASE_ANON_KEY
  THEN <<"Supabase credentials missing. Please check your .env.local file.">>
  ELSE <<>>

\* geminiService.ts: apiKey = import.meta.env.VITE_GEMINI_API_KEY || '' is
\* handed to the client; nothing is logged
geminiStartupLog(env) == <<>>

\* the console after both modules were evaluated
StartupLog(env) == supabaseStartupLog(env) \o geminiStartupLog(env)

(***************************************************************************)
(* Values derived at each render.                                          *)
(***************************************************************************)
\* history.some(h => h.date === date)
HasDate(h, date) == \E i \in 1..Len(h) : h[i].date = date

\* history.find(h => h.date === date), for a history that has the date
FindDate(h, date) ==
  h[CHOOSE i \in 1..Len(h) :
      /\ h[i].date = date
      /\ \A j \in 1..(i - 1) : h[j].date # date]

\* currentDay of a render with the given history
currentDayOf(h, date) ==
  IF HasDate(h, date) THEN FindDate(h, date)
  ELSE [date |-> date, meals |-> <<>>, workouts |-> <<>>,
        calorieGoal |-> USER_PROFILE.calorieGoal,
        proteinGoal |-> USER_PROFILE.proteinGoal]

currentDay == currentDayOf(history, todayStr)

\* the logging modal is rendered; its backdrop (fixed inset-0) covers the page
ModalOpen == isLoggingMeal \/ isLoggingWorkout

\* the buttons of the page under the modal's backdrop can be clicked
PageClickable == ~ModalOpen

(***************************************************************************)
(* Aggregation: stats and weeklyData, computed at each render.             *)
(***************************************************************************)
NaN == [t |-> "NaN"]

\* String(v), as the + operator converts an operand next to a string
JsToString(v) ==
  CASE v.t = "undefined" -> "undefined"
    [] v.t = "null" -> "null"
    [] v.t = "NaN" -> "NaN"
    [] v.t = "string" -> v.s
    [] v.t = "number" -> ToString(v.n)

\* sum + x : numeric addition, null counts as 0, undefined gives NaN, and a
\* string operand turns the addition into a concatenation
JsAdd(sum, x) ==
  CASE sum.t = "string" \/ x.t = "string" ->
         Str(JsToString(sum) \o JsToString(x))
    [] sum.t = "number" /\ x.t = "number" -> Num(sum.n + x.n)
    [] sum.t = "number" /\ x.t = "null" -> sum
    [] OTHER -> NaN

\* a - b : numeric subtraction; null counts as 0, no string of the model is
\* numeric
JsSub(a, b) ==
  CASE a.t = "number" /\ b.t = "number" -> Num(a.n - b.n)
    [] a.t = "number" /\ b.t = "null" -> a
    [] a.t = "null" /\ b.t = "number" -> Num(0 - b.n)
    [] OTHER -> NaN

\* records.reduce((sum, r) => sum + r[field], 0)
RECURSIVE ReduceFrom(_, _, _, _)
ReduceFrom(records, field, k, sum) ==
  IF k > Len(records) THEN sum
  ELSE ReduceFrom(records, field, k + 1, JsAdd(sum, records[k][field]))

ReduceSum(records, field) == ReduceFrom(records, field, 1, Num(0))

\* stats with netCals = consumedCals + burnedCals
statsOfNetAdds(day) ==
  LET consumedCals == ReduceSum(day.meals, "calories")
      burnedCals == ReduceSum(day.workouts, "caloriesBurned")
  IN [consumedCals |-> consumedCals,
      burnedCals |-> burnedCals,
      netCals |-> JsAdd(consumedCals, burnedCals),
      protein |-> ReduceSum(day.meals, "protein"),
      carbs |-> ReduceSum(day.meals, "carbs"),
      fat |-> ReduceSum(day.meals, "fat")]

\* stats of a render whose currentDay is day
statsOf(day) ==
  LET consumedCals == ReduceSum(day.meals, "calories")
      burnedCals == ReduceSum(day.workouts, "caloriesBurned")
  IN [consumedCals |-> consumedCals,
      burnedCals |-> burnedCals,
      netCals |-> JsSub(consumedCals, burnedCals),
      protein |-> ReduceSum(day.meals, "protein"),
      carbs |-> ReduceSum(day.meals, "carbs"),
      fat |-> ReduceSum(day.meals, "fat")]

stats == statsOf(currentDay)

\* the offsets of local time from UTC, in clock units (west, none, east)
TimeZones == {0 - 1, 0, 1}

\* the calendar day (days since 1970-01-01) of instant t, in local time
LocalDay(t, tz) == (t + tz) \div DayLen

\* Date.prototype.getDay of a calendar day: 0 (Sun) to 6 (Sat); day 0 of the
\* epoch is a Thursday
GetDay(day) == (day + 4) % 7

\* toLocaleDateString('en-US', { weekday: 'short' })
WeekdayShort(day) ==
  <<"Sun", "Mon", "Tue", "Wed", "Thu", "Fri", "Sat">>[GetDay(day) + 1]

\* dayOfWeek === 0 ? 6 : dayOfWeek - 1
DiffToMonday(dayOfWeek) == IF dayOfWeek = 0 THEN 6 ELSE dayOfWeek - 1

\* the instant of local midnight at the start of a local calendar day
LocalMidnight(day, tz) == day * DayLen - tz

\* ds = d.toISOString().split('T')[0]: the UTC date of the local midnight
\* that starts the local calendar day d
WeekKey(d, tz) == ISODate(LocalMidnight(d, tz))

\* one entry of weeklyData: d is the local calendar day of the entry
WeekEntry(h, d, tz) ==
  LET ds == WeekKey(d, tz)
      dayMeals == IF HasDate(h, ds) THEN FindDate(h, ds).meals ELSE <<>>
      dayWorkouts == IF HasDate(h, ds) THEN FindDate(h, ds).workouts ELSE <<>>
  IN [name |-> WeekdayShort(d),
      calories |-> ReduceSum(dayMeals, "calories"),
      burned |-> ReduceSum(dayWorkouts, "caloriesBurned"),
      protein |-> ReduceSum(dayMeals, "protein")]

\* weeklyData of a render at instant t with the given history, in a browser
\* whose local time is tz ahead of UTC
weeklyData(h, t, tz) ==
  LET monday == LocalDay(t, tz) - DiffToMonday(GetDay(LocalDay(t, tz)))
  IN [k \in 1..7 |-> WeekEntry(h, monday + (k - 1), tz)]

(***************************************************************************)
(* Tasks.  A task keeps what the handler's closure captured at the render  *)
(* it was started from; currentDay follows from the captured history.      *)
(***************************************************************************)
Task(kind, pc, id, h, text, image, temp) ==
  [kind |-> kind, pc |-> pc, id |-> id, history |-> h, inputText |-> text,
   selectedImage |-> image, temp |-> temp]

At(i, kind, pc) ==
  /\ i \in 1..Len(tasks)
  /\ tasks[i].kind = kind
  /\ tasks[i].pc = pc

\* tasks without its i-th element
Without(s, i) == [k \in 1..(Len(s) - 1) |-> IF k < i THEN s[k] ELSE s[k + 1]]

\* the handler invocation i returns
Done(i, outcome) ==
  /\ tasks' = Without(tasks, i)
  /\ lastDone' = [kind |-> tasks[i].kind, outcome |-> outcome,
                  n |-> lastDone.n + 1]

\* the user can still start a handler
CanStart == started < MaxOps

\* rows the store held before the application was opened
OldMeal(id, date) ==
  [id |-> id, name |-> Str("rice"), original_text |-> Str("rice"),
   calories |-> Num(2), protein |-> Num(1), carbs |-> Num(3),
   fat |-> Num(0), timestamp |-> 0, date |-> date]

OldWorkout(id, date) ==
  [id |-> id, name |-> Str("swim"), original_text |-> Str("swim"),
   calories_burned |-> Num(1), duration_minutes |-> Num(10),
   intensity |-> Str("Moderate"), timestamp |-> 0, date |-> date]

Init ==
  /\ now = 1
  /\ todayStr = ISODate(0)
  /\ history = <<>>
  /\ isLoggingMeal = FALSE
  /\ isLoggingWorkout = FALSE
  /\ inputText = ""
  /\ isAnalyzing = FALSE
  /\ dailyInsight = Null
  /\ isLoading = TRUE
  /\ selectedImage = Null
     \* the store holds a meal of an earlier day and today's records
  /\ meals = <<OldMeal("m0", ISODate(0 - DayLen)), OldMeal("m1", ISODate(0))>>
  /\ workouts = <<OldWorkout("w1", ISODate(0))>>
  /\ nextId = 1
     \* the mount effect has called loadFullHistory
  /\ tasks = <<Task("load", "queryMeals", "", <<>>, "", Null, Null)>>
  /\ started = 0
  /\ alerts = <<>>
  /\ lastDone = [kind |-> "none", outcome |-> "none", n |-> 0]

(***************************************************************************)
(* loadFullHistory (the mount effect) and fetchDailyData's two queries.    *)
(***************************************************************************)
\* the store answers the query on 'meals'
LoadQueryMeals(i, error) ==
  /\ At(i, "load", "queryMeals")
  /\ tasks' = [tasks EXCEPT ![i].pc = "queryWorkouts",
                 ![i].temp = QueryResult(error,
                    IF error THEN <<>> ELSE StoreSelectByDate(meals, todayStr))]
  /\ UNCHANGED <<now, todayStr, history, isAnalyzing, dailyInsight, isLoading,
                 uiVars, storeVars, started, alerts, lastDone>>

\* what loadFullHistory does with the day fetchDailyData returned:
\* setHistory(prev => [...otherDays, dayData]); setIsLoading(false)
LoadResume(i, dayData) ==
  /\ LET OtherDay(h) == h.date # todayStr
     IN history' = Append(SelectSeq(history, OtherDay), dayData)
  /\ isLoading' = FALSE
  /\ Done(i, "ok")
  /\ UNCHANGED <<now, todayStr, isAnalyzing, dailyInsight, uiVars, storeVars,
                 started, alerts>>

\* the store answers the query on 'workouts'; fetchDailyData returns and
\* loadFullHistory runs to its end
LoadQueryWorkouts(i, error) ==
  /\ At(i, "load", "queryWorkouts")
  /\ LET workoutsRes == QueryResult(error,
           IF error THEN <<>> ELSE StoreSelectByDate(workouts, todayStr))
     IN LoadResume(i, fetchDailyData(todayStr, tasks[i].temp, workoutsRes))

(***************************************************************************)
(* User events on the modal.                                               *)
(***************************************************************************)
\* "+ Add Food": setIsLoggingMeal(true)
OpenMealModal ==
  /\ PageClickable
  /\ isLoggingMeal' = TRUE
  /\ UNCHANGED <<now, todayStr, history, isLoggingWorkout, inputText,
                 isAnalyzing, dailyInsight, isLoading, selectedImage,
                 storeVars, tasks, started, alerts, lastDone>>

\* "+ Add Exercise": setIsLoggingWorkout(true)
OpenWorkoutModal ==
  /\ PageClickable
  /\ isLoggingWorkout' = TRUE
  /\ UNCHANGED <<now, todayStr, history, isLoggingMeal, inputText,
                 isAnalyzing, dailyInsight, isLoading, selectedImage,
                 storeVars, tasks, started, alerts, lastDone>>

\* the textarea's onChange
TypeText(text) ==
  /\ ModalOpen
  /\ inputText' = text
  /\ UNCHANGED <<now, todayStr, history, isLoggingMeal, isLoggingWorkout,
                 isAnalyzing, dailyInsight, isLoading, selectedImage,
                 storeVars, tasks, started, alerts, lastDone>>

\* handleImageSelect, when the reader's onloadend fires
handleImageSelect(image) ==
  /\ ModalOpen /\ isLoggingMeal
  /\ selectedImage' = Str(image)
  /\ UNCHANGED <<now, todayStr, history, isLoggingMeal, isLoggingWorkout,
                 inputText, isAnalyzing, dailyInsight, isLoading, storeVars,
                 tasks, started, alerts, lastDone>>

\* the thumbnail's button: setSelectedImage(null)
RemoveImage ==
  /\ ModalOpen /\ isLoggingMeal /\ Truthy(selectedImage)
  /\ selectedImage' = Null
  /\ UNCHANGED <<now, todayStr, history, isLoggingMeal, isLoggingWorkout,
                 inputText, isAnalyzing, dailyInsight, isLoading, storeVars,
                 tasks, started, alerts, lastDone>>

\* "Cancel"
Cancel ==
  /\ ModalOpen
  /\ isLoggingMeal' = FALSE
  /\ isLoggingWorkout' = FALSE
  /\ inputText' = ""
  /\ UNCHANGED <<now, todayStr, history, isAnalyzing, dailyInsight, isLoading,
                 selectedImage, storeVars, tasks, started, alerts, lastDone>>

(***************************************************************************)
(* "Analyze Log": handleAddMeal or handleAddWorkout.                       *)
(***************************************************************************)
\* SubmitEnabled without disabled={isAnalyzing ...}
SubmitEnabledWithoutBusyGuard ==
  /\ ModalOpen
  /\ IF isLoggingMeal
     THEN Trim(inputText) # "" \/ Truthy(selectedImage)
     ELSE Trim(inputText) # ""

\* the submit button is rendered and not disabled
SubmitEnabled ==
  /\ ModalOpen
  /\ ~isAnalyzing
  /\ IF isLoggingMeal
     THEN Trim(inputText) # "" \/ Truthy(selectedImage)
     ELSE Trim(inputText) # ""

\* handleAddMeal up to its first await: setIsAnalyzing(true), the request
SubmitMeal ==
  /\ CanStart
  /\ SubmitEnabled /\ isLoggingMeal
  /\ Trim(inputText) # "" \/ Truthy(selectedImage)
  /\ isAnalyzing' = TRUE
  /\ tasks' = Append(tasks, Task("addMeal", "analyze", "", history, inputText,
                                 selectedImage, Null))
  /\ started' = started + 1
  /\ UNCHANGED <<now, todayStr, history, dailyInsight, isLoading, uiVars,
                 storeVars, alerts, lastDone>>

\* handleAddWorkout up to its first await
SubmitWorkout ==
  /\ CanStart
  /\ SubmitEnabled /\ ~isLoggingMeal
  /\ Trim(inputText) # ""
  /\ isAnalyzing' = TRUE
  /\ tasks' = Append(tasks, Task("addWorkout", "analyze", "", history,
                                 inputText, Null, Null))
  /\ started' = started + 1
  /\ UNCHANGED <<now, todayStr, history, dailyInsight, isLoading, uiVars,
                 storeVars, alerts, lastDone>>

\* a catch that only logs to the console
AddFailsSilently(i) ==
  /\ isAnalyzing' = FALSE
  /\ Done(i, "failed")
  /\ UNCHANGED <<now, todayStr, history, dailyInsight, isLoading, uiVars,
                 storeVars, started, alerts>>

\* a handler without the finally block: the busy flag stays set
AddFailsKeepsBusy(i) ==
  /\ alerts' = Append(alerts, "Analysis failed")
  /\ Done(i, "failed")
  /\ UNCHANGED <<now, todayStr, history, dailyInsight, isLoading, uiVars,
                 storeVars, started, isAnalyzing>>

\* catch: alert(`Analysis failed: ...`); finally: setIsAnalyzing(false)
AddFails(i) ==
  /\ alerts' = Append(alerts, "Analysis failed")
  /\ isAnalyzing' = FALSE
  /\ Done(i, "failed")
  /\ UNCHANGED <<now, todayStr, history, dailyInsight, isLoading, uiVars,
                 storeVars, started>>

\* tempMeal, from the extraction result and the captured inputText
tempMealOf(result, text, timestamp) ==
  [name |-> result.name, calories |-> result.calories,
   protein |-> result.protein, carbs |-> result.carbs, fat |-> result.fat,
   originalText |->
     OrElse(Str(text), Str("Photo: " \o TemplateStr(result.name))),
   timestamp |-> timestamp]

\* tempWorkout = {...result, originalText: inputText, timestamp: Date.now()}
tempWorkoutOf(result, text, timestamp) ==
  [name |-> result.name, caloriesBurned |-> result.caloriesBurned,
   durationMinutes |-> result.durationMinutes,
   intensity |-> result.intensity,
   originalText |-> Str(text), timestamp |-> timestamp]

\* the time that has passed since the clock was last read when Date.now()
\* is called: none, or a whole day with the application left open
Elapsed == {0, DayLen}

\* the AI service answers handleAddMeal's request
AddMealAnalyzed(i, serviceThrows, text, elapsed) ==
  /\ At(i, "addMeal", "analyze")
  /\ LET r == IF Truthy(tasks[i].selectedImage)
              THEN analyzeMealWithImage(serviceThrows, text)
              ELSE analyzeMeal(serviceThrows, text)
     IN IF r.throws
        THEN AddFails(i)
        ELSE /\ tasks' = [tasks EXCEPT ![i].pc = "insert",
                  ![i].temp = tempMealOf(r.value, tasks[i].inputText,
                                         now + elapsed)]
             /\ now' = now + elapsed + 1
             /\ UNCHANGED <<todayStr, history, isAnalyzing, dailyInsight,
                            isLoading, uiVars, storeVars, started, alerts,
                            lastDone>>

\* the AI service answers handleAddWorkout's request
AddWorkoutAnalyzed(i, serviceThrows, text, elapsed) ==
  /\ At(i, "addWorkout", "analyze")
  /\ LET r == analyzeWorkout(serviceThrows, text)
     IN IF r.throws
        THEN AddFails(i)
        ELSE /\ tasks' = [tasks EXCEPT ![i].pc = "insert",
                  ![i].temp = tempWorkoutOf(r.value, tasks[i].inputText,
                                            now + elapsed)]
             /\ now' = now + elapsed + 1
             /\ UNCHANGED <<todayStr, history, isAnalyzing, dailyInsight,
                            isLoading, uiVars, storeVars, started, alerts,
                            lastDone>>

(***************************************************************************)
(* await addMealRecord(...) / addWorkoutRecord(...) resolves: the store    *)
(* rejects the insert, or stores the row and returns it, or reports no     *)
(* error and returns no row; then the handler runs to its end.             *)
(***************************************************************************)
InsertOutcomes == {"error", "row", "norow"}

\* the answer { data, error } of .insert([...]).select()
InsertResult(outcome, row) ==
  QueryResult(outcome = "error", IF outcome = "row" THEN <<row>> ELSE <<>>)

\* a savedMeal whose id the client makes up
savedMealWithClientId(raw) ==
  [id |-> "local", name |-> raw.name, original_text |-> raw.original_text,
   calories |-> raw.calories, protein |-> raw.protein, carbs |-> raw.carbs,
   fat |-> raw.fat, timestamp |-> raw.timestamp, date |-> raw.date,
   originalText |-> raw.original_text]

\* savedMeal = {...savedMealRaw, originalText: savedMealRaw.original_text}
savedMealOf(raw) ==
  [id |-> raw.id, name |-> raw.name, original_text |-> raw.original_text,
   calories |-> raw.calories, protein |-> raw.protein, carbs |-> raw.carbs,
   fat |-> raw.fat, timestamp |-> raw.timestamp, date |-> raw.date,
   originalText |-> raw.original_text]

\* savedWorkout = {...savedWorkoutRaw, originalText, caloriesBurned, ...}
savedWorkoutOf(raw) ==
  [id |-> raw.id, name |-> raw.name, original_text |-> raw.original_text,
   calories_burned |-> raw.calories_burned,
   duration_minutes |-> raw.duration_minutes, intensity |-> raw.intensity,
   timestamp |-> raw.timestamp, date |-> raw.date,
   originalText |-> raw.original_text,
   caloriesBurned |-> raw.calories_burned,
   durationMinutes |-> raw.duration_minutes]

\* an updatedHistory that gets a new entry whether or not the date has one
addMealToHistoryAlwaysAppends(h, date, savedMeal) ==
  Append(h, [currentDayOf(h, date) EXCEPT !.meals = <<savedMeal>>])

\* updatedHistory of handleAddMeal, from the captured history
addMealToHistory(h, date, savedMeal) ==
  IF HasDate(h, date)
  THEN [k \in 1..Len(h) |->
          IF h[k].date = date
          THEN [h[k] EXCEPT !.meals = Append(h[k].meals, savedMeal)]
          ELSE h[k]]
  ELSE Append(h, [currentDayOf(h, date) EXCEPT !.meals = <<savedMeal>>])

\* updatedHistory of handleAddWorkout
addWorkoutToHistory(h, date, savedWorkout) ==
  IF HasDate(h, date)
  THEN [k \in 1..Len(h) |->
          IF h[k].date = date
          THEN [h[k] EXCEPT !.workouts = Append(h[k].workouts, savedWorkout)]
          ELSE h[k]]
  ELSE Append(h, [currentDayOf(h, date) EXCEPT !.workouts = <<savedWorkout>>])

\* reading savedMealRaw.original_text of undefined throws a TypeError
AddMealSaved(i, outcome) ==
  /\ At(i, "addMeal", "insert")
  /\ LET row == MealRow(StoreId(nextId),
                        MealInsertBody(tasks[i].temp, todayStr))
         r == addRecordReturn(InsertResult(outcome, row))
     IN IF r.throws \/ r.value = Undefined
        THEN AddFails(i)
        ELSE /\ meals' = Append(meals, row)
             /\ nextId' = nextId + 1
             /\ history' = addMealToHistory(tasks[i].history, todayStr,
                                            savedMealOf(r.value))
             /\ inputText' = ""
             /\ selectedImage' = Null
             /\ isLoggingMeal' = FALSE
             /\ isAnalyzing' = FALSE
             /\ Done(i, "ok")
             /\ UNCHANGED <<now, todayStr, isLoggingWorkout, dailyInsight,
                            isLoading, workouts, started, alerts>>

AddWorkoutSaved(i, outcome) ==
  /\ At(i, "addWorkout", "insert")
  /\ LET row == WorkoutRow(StoreId(nextId),
                           WorkoutInsertBody(tasks[i].temp, todayStr))
         r == addRecordReturn(InsertResult(outcome, row))
     IN IF r.throws \/ r.value = Undefined
        THEN AddFails(i)
        ELSE /\ workouts' = Append(workouts, row)
             /\ nextId' = nextId + 1
             /\ history' = addWorkoutToHistory(tasks[i].history, todayStr,
                                               savedWorkoutOf(r.value))
             /\ inputText' = ""
             /\ isLoggingWorkout' = FALSE
             /\ isAnalyzing' = FALSE
             /\ Done(i, "ok")
             /\ UNCHANGED <<now, todayStr, isLoggingMeal, dailyInsight,
                            isLoading, selectedImage, meals, started, alerts>>

(***************************************************************************)
(* handleDeleteMeal / handleDeleteWorkout.                                 *)
(***************************************************************************)
\* the ids of a sequence of records
Ids(records) == {records[k].id : k \in 1..Len(records)}

\* a click on the delete button of a meal that the render shows
ClickDeleteMeal(id) ==
  /\ CanStart
  /\ PageClickable
  /\ id \in Ids(currentDay.meals)
  /\ tasks' = Append(tasks, Task("deleteMeal", "delete", id, history, "",
                                 Null, Null))
  /\ started' = started + 1
  /\ UNCHANGED <<now, todayStr, history, isAnalyzing, dailyInsight, isLoading,
                 uiVars, storeVars, alerts, lastDone>>

ClickDeleteWorkout(id) ==
  /\ CanStart
  /\ PageClickable
  /\ id \in Ids(currentDay.workouts)
  /\ tasks' = Append(tasks, Task("deleteWorkout", "delete", id, history, "",
                                 Null, Null))
  /\ started' = started + 1
  /\ UNCHANGED <<now, todayStr, history, isAnalyzing, dailyInsight, isLoading,
                 uiVars, storeVars, alerts, lastDone>>

\* a filter with === in place of !== : only the clicked meal is kept
deleteMealFromHistoryKeepsOnlyId(h, date, id) ==
  LET Same(m) == m.id = id
  IN [k \in 1..Len(h) |->
        IF h[k].date = date
        THEN [h[k] EXCEPT !.meals = SelectSeq(h[k].meals, Same)]
        ELSE h[k]]

\* updatedHistory of handleDeleteMeal, from the captured history
deleteMealFromHistory(h, date, id) ==
  LET Other(m) == m.id # id
  IN [k \in 1..Len(h) |->
        IF h[k].date = date
        THEN [h[k] EXCEPT !.meals = SelectSeq(h[k].meals, Other)]
        ELSE h[k]]

deleteWorkoutFromHistory(h, date, id) ==
  LET Other(w) == w.id # id
  IN [k \in 1..Len(h) |->
        IF h[k].date = date
        THEN [h[k] EXCEPT !.workouts = SelectSeq(h[k].workouts, Other)]
        ELSE h[k]]

\* catch: alert("Failed to delete ...")
DeleteFails(i, message) ==
  /\ alerts' = Append(alerts, message)
  /\ Done(i, "failed")
  /\ UNCHANGED <<now, todayStr, history, isAnalyzing, dailyInsight, isLoading,
                 uiVars, storeVars, started>>

\* await deleteMealRecord(id) resolves: the store rejects the delete, or
\* removes the rows with that id (none, when no row has it) without error
DeleteMealDone(i, error) ==
  /\ At(i, "deleteMeal", "delete")
  /\ IF deleteRecordReturn(QueryResult(error, <<>>)).throws
     THEN DeleteFails(i, "Failed to delete meal.")
     ELSE /\ meals' = StoreDeleteById(meals, tasks[i].id)
          /\ history' = deleteMealFromHistory(tasks[i].history, todayStr,
                                              tasks[i].id)
          /\ Done(i, "ok")
          /\ UNCHANGED <<now, todayStr, isAnalyzing, dailyInsight, isLoading,
                         uiVars, workouts, nextId, started, alerts>>

DeleteWorkoutDone(i, error) ==
  /\ At(i, "deleteWorkout", "delete")
  /\ IF deleteRecordReturn(QueryResult(error, <<>>)).throws
     THEN DeleteFails(i, "Failed to delete workout.")
     ELSE /\ workouts' = StoreDeleteById(workouts, tasks[i].id)
          /\ history' = deleteWorkoutFromHistory(tasks[i].history, todayStr,
                                                 tasks[i].id)
          /\ Done(i, "ok")
          /\ UNCHANGED <<now, todayStr, isAnalyzing, dailyInsight, isLoading,
                         uiVars, meals, nextId, started, alerts>>

(***************************************************************************)
(* "AI INSIGHT": generateSummary.                                          *)
(***************************************************************************)
\* the button can be clicked and is not disabled
InsightEnabled == PageClickable /\ ~isAnalyzing

ClickInsight ==
  /\ CanStart
  /\ InsightEnabled
  /\ isAnalyzing' = TRUE
  /\ tasks' = Append(tasks, Task("summary", "analyze", "", <<>>, "", Null,
                                 Null))
  /\ started' = started + 1
  /\ UNCHANGED <<now, todayStr, history, dailyInsight, isLoading, uiVars,
                 storeVars, alerts, lastDone>>

\* response.text of getDailyInsight
InsightTexts == {Str(""), Str("Nice work.")}

\* setDailyInsight(insight || ...), or the catch's text; setIsAnalyzing(false)
SummaryAnalyzed(i, serviceThrows, text) ==
  /\ At(i, "summary", "analyze")
  /\ dailyInsight' =
       IF serviceThrows
       THEN Str("Stay focused on your protein goal to maintain muscle while losing weight.")
       ELSE OrElse(text, Str("You're doing great! Keep it consistent."))
  /\ isAnalyzing' = FALSE
  /\ Done(i, "ok")
  /\ UNCHANGED <<now, todayStr, history, isLoading, uiVars, storeVars,
                 started, alerts>>

(***************************************************************************)
(* The specification.                                                      *)
(***************************************************************************)
\* what the AI service may do with a request: throw, or answer with a text
Answers(texts) == {<<TRUE, Undefined>>} \cup {<<FALSE, t>> : t \in texts}

Next ==
  \/ \E i \in 1..Len(tasks), error \in BOOLEAN : LoadQueryMeals(i, error)
  \/ \E i \in 1..Len(tasks), error \in BOOLEAN : LoadQueryWorkouts(i, error)
  \/ OpenMealModal
  \/ OpenWorkoutModal
  \/ \E text \in Texts : TypeText(text)
  \/ \E image \in Images : handleImageSelect(image)
  \/ RemoveImage
  \/ Cancel
  \/ SubmitMeal
  \/ SubmitWorkout
  \/ \E i \in 1..Len(tasks), a \in Answers(ResponseTexts(MealDocs)),
        elapsed \in Elapsed :
        AddMealAnalyzed(i, a[1], a[2], elapsed)
  \/ \E i \in 1..Len(tasks), a \in Answers(ResponseTexts(WorkoutDocs)),
        elapsed \in Elapsed :
        AddWorkoutAnalyzed(i, a[1], a[2], elapsed)
  \/ \E i \in 1..Len(tasks), outcome \in InsertOutcomes :
        AddMealSaved(i, outcome)
  \/ \E i \in 1..Len(tasks), outcome \in InsertOutcomes :
        AddWorkoutSaved(i, outcome)
  \/ \E id \in Ids(currentDay.meals) : ClickDeleteMeal(id)
  \/ \E id \in Ids(currentDay.workouts) : ClickDeleteWorkout(id)
  \/ \E i \in 1..Len(tasks), error \in BOOLEAN : DeleteMealDone(i, error)
  \/ \E i \in 1..Len(tasks), error \in BOOLEAN : DeleteWorkoutDone(i, error)
  \/ ClickInsight
  \/ \E i \in 1..Len(tasks), a \in Answers(InsightTexts) :
        SummaryAnalyzed(i, a[1], a[2])

Spec == Init /\ [][Next]_vars

\* the remote call a submission or generateSummary awaits resolves or rejects
RemoteAnswers ==
  \/ \E i \in 1..Len(tasks), a \in Answers(ResponseTexts(MealDocs)),
        elapsed \in Elapsed :
        AddMealAnalyzed(i, a[1], a[2], elapsed)
  \/ \E i \in 1..Len(tasks), a \in Answers(ResponseTexts(WorkoutDocs)),
        elapsed \in Elapsed :
        AddWorkoutAnalyzed(i, a[1], a[2], elapsed)
  \/ \E i \in 1..Len(tasks), outcome \in InsertOutcomes :
        AddMealSaved(i, outcome)
  \/ \E i \in 1..Len(tasks), outcome \in InsertOutcomes :
        AddWorkoutSaved(i, outcome)
  \/ \E i \in 1..Len(tasks), a \in Answers(InsightTexts) :
        SummaryAnalyzed(i, a[1], a[2])

\* the behaviours in which every awaited remote call is answered in the end
FairSpec == Spec /\ WF_vars(RemoteAnswers)

(***************************************************************************)
(* Properties.                                                             *)
(***************************************************************************)
InFlight(kinds) == {i \in 1..Len(tasks) : tasks[i].kind \in kinds}

Submissions == InFlight({"addMeal", "addWorkout"})

\* the meals / workouts of all entries of a history
AllMeals(h) == UNION {{h[k].meals[j] : j \in 1..Len(h[k].meals)} : k \in 1..Len(h)}

AllWorkouts(h) ==
  UNION {{h[k].workouts[j] : j \in 1..Len(h[k].workouts)} : k \in 1..Len(h)}

Rows(table) == {table[k] : k \in 1..Len(table)}

\* a handler invocation of one of the kinds returns in this step
Returns(kinds) == lastDone'.n = lastDone.n + 1 /\ lastDone'.kind \in kinds

\* C1: at most one handleAddMeal / handleAddWorkout is in flight, and while
\* one is in flight isAnalyzing is true and the submit button is disabled.
C1_OneSubmissionInFlight ==
  /\ Cardinality(Submissions) <= 1
  /\ Submissions # {} => isAnalyzing /\ ~SubmitEnabled

\* a submission is in flight, after an AI INSIGHT, while the modal holds a text
C1_Witness ==
  /\ Submissions # {}
  /\ ModalOpen
  /\ Trim(inputText) # ""
  /\ lastDone.kind = "summary"

\* what fetchDailyData returns when the queries end with the given errors
FetchNow(date, mealsError, workoutsError) ==
  fetchDailyData(date,
    QueryResult(mealsError,
                IF mealsError THEN <<>> ELSE StoreSelectByDate(meals, date)),
    QueryResult(workoutsError,
                IF workoutsError THEN <<>> ELSE StoreSelectByDate(workouts, date)))

\* C2: whatever the store holds, fetchDailyData(date) with an error of either
\* query returns the empty DailyStats of that date with goals 1800 and 150.
C2_FetchErrorGivesEmptyDay ==
  \A date \in {todayStr, ISODate(0 - DayLen)} :
    \A mealsError, workoutsError \in BOOLEAN :
      mealsError \/ workoutsError =>
        FetchNow(date, mealsError, workoutsError) =
          [date |-> date, meals |-> <<>>, workouts |-> <<>>,
           calorieGoal |-> 1800, proteinGoal |-> 150]

\* the load has ended with the empty day although the store holds today's
\* meals
C2_Witness ==
  /\ tasks = <<>>
  /\ started = 0
  /\ ~isLoading
  /\ history = <<EmptyDay(todayStr)>>
  /\ StoreSelectByDate(meals, todayStr) # <<>>

\* C3: a store error makes addMealRecord, addWorkoutRecord, deleteMealRecord
\* and deleteWorkoutRecord throw; an insert that succeeds returns the stored
\* row: the store-assigned id and every written field.
C3_WritesPropagateRejection ==
  \A i \in 1..Len(tasks) :
    /\ At(i, "addMeal", "insert") =>
         LET meal == tasks[i].temp
             row == MealRow(StoreId(nextId), MealInsertBody(meal, todayStr))
             ok == addRecordReturn(InsertResult("row", row))
         IN /\ addRecordReturn(InsertResult("error", row)).throws
            /\ ~ok.throws
            /\ ok.value.id = StoreId(nextId)
            /\ ok.value.name = ToColumn(meal.name)
            /\ ok.value.original_text = ToColumn(meal.originalText)
            /\ ok.value.calories = ToColumn(meal.calories)
            /\ ok.value.protein = ToColumn(meal.protein)
            /\ ok.value.carbs = ToColumn(meal.carbs)
            /\ ok.value.fat = ToColumn(meal.fat)
            /\ ok.value.timestamp = meal.timestamp
            /\ ok.value.date = todayStr
    /\ At(i, "addWorkout", "insert") =>
         LET workout == tasks[i].temp
             row == WorkoutRow(StoreId(nextId),
                               WorkoutInsertBody(workout, todayStr))
             ok == addRecordReturn(InsertResult("row", row))
         IN /\ addRecordReturn(InsertResult("error", row)).throws
            /\ ~ok.throws
            /\ ok.value.id = StoreId(nextId)
            /\ ok.value.name = ToColumn(workout.name)
            /\ ok.value.original_text = ToColumn(workout.originalText)
            /\ ok.value.calories_burned = ToColumn(workout.caloriesBurned)
            /\ ok.value.duration_minutes = ToColumn(workout.durationMinutes)
            /\ ok.value.intensity = ToColumn(workout.intensity)
            /\ ok.value.timestamp = workout.timestamp
            /\ ok.value.date = todayStr
    /\ tasks[i].kind \in {"deleteMeal", "deleteWorkout"} =>
         deleteRecordReturn(QueryResult(TRUE, <<>>)).throws

\* an insert has returned its row after the store rejected a delete
C3_Witness ==
  /\ lastDone.kind = "addMeal" /\ lastDone.outcome = "ok"
  /\ \E m \in Rows(meals) : m.id = StoreId(1)
  /\ \E k \in 1..Len(alerts) : alerts[k] = "Failed to delete meal."

AddKinds == {"addMeal", "addWorkout"}

DeleteKinds == {"deleteMeal", "deleteWorkout"}

\* C4: when an add or delete handler fails it raises one alert and leaves
\* history unchanged; a failing add handler also leaves inputText,
\* selectedImage and the open modal unchanged.
C4_FailureIsShown ==
  [][ /\ Returns(AddKinds \cup DeleteKinds) /\ lastDone'.outcome = "failed" =>
           /\ Len(alerts') = Len(alerts) + 1
           /\ history' = history
      /\ Returns(AddKinds) /\ lastDone'.outcome = "failed" =>
           /\ alerts' = Append(alerts, "Analysis failed")
           /\ inputText' = inputText
           /\ selectedImage' = selectedImage
           /\ isLoggingMeal' = isLoggingMeal
           /\ isLoggingWorkout' = isLoggingWorkout
      /\ Returns({"deleteMeal"}) /\ lastDone'.outcome = "failed" =>
           alerts' = Append(alerts, "Failed to delete meal.")
      /\ Returns({"deleteWorkout"}) /\ lastDone'.outcome = "failed" =>
           alerts' = Append(alerts, "Failed to delete workout.")
    ]_vars

\* an add has just failed with the modal open on the text and the image
C4_Witness ==
  /\ lastDone.kind = "addMeal" /\ lastDone.outcome = "failed"
  /\ alerts # <<>> /\ alerts[Len(alerts)] = "Analysis failed"
  /\ isLoggingMeal
  /\ inputText # ""
  /\ Truthy(selectedImage)

MealNumbers(m) == {m.calories, m.protein, m.carbs, m.fat}

\* C5: no record with an undefined or non-numeric calories, protein, carbs,
\* fat, caloriesBurned or durationMinutes is passed to the store, stored, or
\* held in history.
C5_MalformedResponseRaises ==
  /\ \A i \in 1..Len(tasks) :
       /\ At(i, "addMeal", "insert") =>
            \A v \in MealNumbers(tasks[i].temp) : IsNumber(v)
       /\ At(i, "addWorkout", "insert") =>
            /\ IsNumber(tasks[i].temp.caloriesBurned)
            /\ IsNumber(tasks[i].temp.durationMinutes)
  /\ \A m \in AllMeals(history) \cup Rows(meals) :
       \A v \in MealNumbers(m) : IsNumber(v)
  /\ \A w \in AllWorkouts(history) :
       IsNumber(w.caloriesBurned) /\ IsNumber(w.durationMinutes)
  /\ \A w \in Rows(workouts) :
       IsNumber(w.calories_burned) /\ IsNumber(w.duration_minutes)

\* the response texts that are empty or not JSON
BadBodies == {Undefined, Str(""), Str("not json")}

\* C6: whenever an extraction is awaited, a throwing service call and every
\* empty or unparseable body make analyzeMeal / analyzeMealWithImage /
\* analyzeWorkout throw.
C6_EmptyOrUnparseableBodyFails ==
  \A i \in 1..Len(tasks) :
    /\ At(i, "addMeal", "analyze") =>
         /\ analyzeMeal(TRUE, Undefined).throws
         /\ analyzeMealWithImage(TRUE, Undefined).throws
         /\ \A text \in BadBodies :
              analyzeMeal(FALSE, text).throws
              /\ analyzeMealWithImage(FALSE, text).throws
    /\ At(i, "addWorkout", "analyze") =>
         /\ analyzeWorkout(TRUE, Undefined).throws
         /\ \A text \in BadBodies : analyzeWorkout(FALSE, text).throws

Intensities == {Str("Low"), Str("Moderate"), Str("High")}

\* C7: every workout in history or in the store has an intensity that is one
\* of Low, Moderate, High.
C7_IntensityInEnum ==
  \A w \in AllWorkouts(history) \cup Rows(workouts) : w.intensity \in Intensities

\* the identifiers the store has assigned so far
StoreAssignedIds ==
  {"m0", "m1", "w1"} \cup {StoreId(n) : n \in 1..(nextId - 1)}

\* C8: every meal and workout in history carries an identifier the store
\* assigned to an inserted row, and an add handler that returns without the
\* store having inserted and returned a row leaves history as it was.
C8_IdsAreStoreAssigned ==
  /\ [](\A r \in AllMeals(history) \cup AllWorkouts(history) :
          r.id \in StoreAssignedIds)
  /\ [][ Returns(AddKinds) /\ nextId' = nextId => history' = history ]_vars

\* history holds a meal that was added in this session
C8_Witness ==
  /\ lastDone.kind = "addMeal" /\ lastDone.outcome = "ok"
  /\ \E m \in AllMeals(history) : m.id = StoreId(1)
  /\ alerts # <<>>

\* the entity fields of a meal / workout agree with the written record
SameMeal(written, entity) ==
  /\ entity.name = written.name
  /\ entity.originalText = written.originalText
  /\ entity.calories = written.calories
  /\ entity.protein = written.protein
  /\ entity.carbs = written.carbs
  /\ entity.fat = written.fat
  /\ entity.timestamp = written.timestamp

SameWorkout(written, entity) ==
  /\ entity.name = written.name
  /\ entity.originalText = written.originalText
  /\ entity.caloriesBurned = written.caloriesBurned
  /\ entity.durationMinutes = written.durationMinutes
  /\ entity.intensity = written.intensity
  /\ entity.timestamp = written.timestamp

\* a stored row, read as the record that was written
MealOfRow(row) ==
  [name |-> row.name, originalText |-> row.original_text,
   calories |-> row.calories, protein |-> row.protein, carbs |-> row.carbs,
   fat |-> row.fat, timestamp |-> row.timestamp]

WorkoutOfRow(row) ==
  [name |-> row.name, originalText |-> row.original_text,
   caloriesBurned |-> row.calories_burned,
   durationMinutes |-> row.duration_minutes, intensity |-> row.intensity,
   timestamp |-> row.timestamp]

\* every extracted field of the record holds a value (none is undefined)
AllDefined(record) ==
  \A f \in DOMAIN record \ {"timestamp"} : record[f] # Undefined

\* fetchDailyData(date) when the tables are as given and no query errs
FetchFrom(mealsTable, workoutsTable, date) ==
  fetchDailyData(date,
    QueryResult(FALSE, StoreSelectByDate(mealsTable, date)),
    QueryResult(FALSE, StoreSelectByDate(workoutsTable, date)))

\* C9: a record about to be written, once inserted for today, is read back by
\* fetchDailyData(today) and is put into history by the add handler with the
\* values that were written; and every stored row of today is read back, and
\* is held in history, with the row's values under the renaming.
C9_RoundTrip ==
  /\ \A i \in 1..Len(tasks) :
       /\ At(i, "addMeal", "insert") /\ AllDefined(tasks[i].temp) =>
            LET meal == tasks[i].temp
                row == MealRow(StoreId(nextId), MealInsertBody(meal, todayStr))
                back == FetchFrom(Append(meals, row), workouts, todayStr).meals
                saved == savedMealOf(addRecordReturn(InsertResult("row", row)).value)
            IN /\ back # <<>>
               /\ back[Len(back)].id = StoreId(nextId)
               /\ SameMeal(meal, back[Len(back)])
               /\ SameMeal(meal, saved)
       /\ At(i, "addWorkout", "insert") /\ AllDefined(tasks[i].temp) =>
            LET workout == tasks[i].temp
                row == WorkoutRow(StoreId(nextId),
                                  WorkoutInsertBody(workout, todayStr))
                back == FetchFrom(meals, Append(workouts, row), todayStr).workouts
                saved == savedWorkoutOf(addRecordReturn(InsertResult("row", row)).value)
            IN /\ back # <<>>
               /\ back[Len(back)].id = StoreId(nextId)
               /\ SameWorkout(workout, back[Len(back)])
               /\ SameWorkout(workout, saved)
  /\ LET day == FetchFrom(meals, workouts, todayStr)
     IN /\ \A row \in Rows(meals) : row.date = todayStr =>
             \E k \in 1..Len(day.meals) :
                day.meals[k].id = row.id /\ SameMeal(MealOfRow(row), day.meals[k])
        /\ \A row \in Rows(workouts) : row.date = todayStr =>
             \E k \in 1..Len(day.workouts) :
                /\ day.workouts[k].id = row.id
                /\ SameWorkout(WorkoutOfRow(row), day.workouts[k])
  /\ \A m \in AllMeals(history) : \A row \in Rows(meals) :
       row.id = m.id => SameMeal(MealOfRow(row), m)
  /\ \A w \in AllWorkouts(history) : \A row \in Rows(workouts) :
       row.id = w.id => SameWorkout(WorkoutOfRow(row), w)

\* history holds a meal and a workout that were added in this session with
\* all their fields numbers
C9_Witness ==
  /\ \E m \in AllMeals(history) :
       /\ m.id \in {StoreId(1), StoreId(2)}
       /\ IsNumber(m.calories) /\ IsNumber(m.protein)
       /\ m \in {MealFromRow(row) : row \in Rows(meals)}
  /\ \E w \in AllWorkouts(history) :
       /\ w.id \in {StoreId(1), StoreId(2)}
       /\ IsNumber(w.caloriesBurned) /\ IsNumber(w.durationMinutes)
       /\ w.caloriesBurned # w.durationMinutes

\* C10: a delete handler that returns after asking the store to delete an id
\* that no row has ends in an error.
C10_DeleteOfMissingIdFails ==
  [][ \A i \in 1..Len(tasks) :
        /\ tasks[i].pc = "delete"
        /\ tasks' = Without(tasks, i)
        /\ lastDone'.n = lastDone.n + 1
        /\ \/ tasks[i].kind = "deleteMeal" /\ tasks[i].id \notin Ids(meals)
           \/ tasks[i].kind = "deleteWorkout" /\ tasks[i].id \notin Ids(workouts)
        => lastDone'.outcome = "failed"
    ]_vars

\* the sum of the numbers records[1][field] .. records[n][field]
RECURSIVE RefSum(_, _, _)
RefSum(records, field, n) ==
  IF n = 0 THEN 0 ELSE RefSum(records, field, n - 1) + records[n][field].n

\* every summed field of the day's records is a number
NumericDay(day) ==
  /\ \A k \in 1..Len(day.meals) : \A v \in MealNumbers(day.meals[k]) : IsNumber(v)
  /\ \A k \in 1..Len(day.workouts) : IsNumber(day.workouts[k].caloriesBurned)

\* the totals of a day, as sums of numbers
RefStats(day) ==
  LET consumed == RefSum(day.meals, "calories", Len(day.meals))
      burned == RefSum(day.workouts, "caloriesBurned", Len(day.workouts))
  IN [consumedCals |-> Num(consumed),
      burnedCals |-> Num(burned),
      netCals |-> Num(consumed - burned),
      protein |-> Num(RefSum(day.meals, "protein", Len(day.meals))),
      carbs |-> Num(RefSum(day.meals, "carbs", Len(day.meals))),
      fat |-> Num(RefSum(day.meals, "fat", Len(day.meals)))]

ZeroMeal ==
  [id |-> "z", name |-> Str("water"), originalText |-> Str("water"),
   calories |-> Num(0), protein |-> Num(0), carbs |-> Num(0), fat |-> Num(0),
   timestamp |-> 0]

ZeroWorkout ==
  [id |-> "z", name |-> Str("rest"), originalText |-> Str("rest"),
   caloriesBurned |-> Num(0), durationMinutes |-> Num(0),
   intensity |-> Str("Low"), timestamp |-> 0]

\* C11: for the records of the current day (their summed fields numbers), the
\* stats are the sums of the records' calories, caloriesBurned, protein, carbs
\* and fat and netCals is consumed minus burned; the day without records has
\* all totals 0; and a further record with all values 0 changes no total.
C11_StatsAreSums ==
  /\ statsOf(currentDayOf(<<>>, todayStr)) =
       [consumedCals |-> Num(0), burnedCals |-> Num(0), netCals |-> Num(0),
        protein |-> Num(0), carbs |-> Num(0), fat |-> Num(0)]
  /\ NumericDay(currentDay) =>
       /\ stats = RefStats(currentDay)
       /\ statsOf([currentDay EXCEPT !.meals = Append(@, ZeroMeal)]) = stats
       /\ statsOf([currentDay EXCEPT !.meals = <<ZeroMeal>> \o @]) = stats
       /\ statsOf([currentDay EXCEPT !.workouts = Append(@, ZeroWorkout)]) = stats

\* the current day holds two meals and a workout, with numbers in all fields,
\* and more was consumed than burned
C11_Witness ==
  /\ NumericDay(currentDay)
  /\ Len(currentDay.meals) >= 2
  /\ Len(currentDay.workouts) >= 1
  /\ stats.netCals.n > 0
  /\ stats.burnedCals.n > 0

\* the names of the entries of a week that starts on Monday
WeekNames == <<"Mon", "Tue", "Wed", "Thu", "Fri", "Sat", "Sun">>

\* the Monday on or before a calendar day
MondayOf(day) == CHOOSE m \in (day - 6)..day : GetDay(m) = 1

\* what an entry for the calendar date is to report
DateTotals(h, date) ==
  IF HasDate(h, date)
  THEN [calories |-> ReduceSum(FindDate(h, date).meals, "calories"),
        burned |-> ReduceSum(FindDate(h, date).workouts, "caloriesBurned"),
        protein |-> ReduceSum(FindDate(h, date).meals, "protein")]
  ELSE [calories |-> Num(0), burned |-> Num(0), protein |-> Num(0)]

\* C12: in every time zone in which the local calendar day is the UTC day of
\* the render, weeklyData has 7 entries named Mon .. Sun, and the entry of each
\* weekday reports the totals of the history entry for that weekday's date in
\* the current week (0 for calories, burned and protein without such an entry).
C12_WeeklyRollupByDate ==
  \A tz \in TimeZones :
    LocalDay(now, tz) = LocalDay(now, 0) =>
      LET week == weeklyData(history, now, tz)
          monday == MondayOf(LocalDay(now, 0))
      IN /\ Len(week) = 7
         /\ \A k \in 1..7 :
              LET totals == DateTotals(history, "day" \o ToString(monday + k - 1))
              IN /\ week[k].name = WeekNames[k]
                 /\ week[k].calories = totals.calories
                 /\ week[k].burned = totals.burned
                 /\ week[k].protein = totals.protein

\* the extraction's result, as held in tempMeal, has a name and numbers
WellFormedMeal(meal) ==
  /\ meal.name.t = "string"
  /\ \A v \in MealNumbers(meal) : IsNumber(v)

\* C13: when handleAddMeal returns with success, no other handler being in
\* flight, and the extraction's result was well formed, fetchDailyData of the
\* day gives the meals it gave before followed by one meal that has the
\* extraction's name, calories, protein, carbs and fat, and consumedCals of the
\* fetched day has grown by that meal's calories.
C13_AddThenRefetch ==
  [][ /\ Len(tasks) = 1
      /\ tasks[1].kind = "addMeal"
      /\ Returns({"addMeal"})
      /\ lastDone'.outcome = "ok"
      /\ WellFormedMeal(tasks[1].temp)
      => LET before == FetchFrom(meals, workouts, todayStr)
             after == FetchFrom(meals', workouts', todayStr)
             new == after.meals[Len(after.meals)]
             extracted == tasks[1].temp
         IN /\ Len(after.meals) = Len(before.meals) + 1
            /\ \A k \in 1..Len(before.meals) : after.meals[k] = before.meals[k]
            /\ after.workouts = before.workouts
            /\ new.name = extracted.name
            /\ new.calories = extracted.calories
            /\ new.protein = extracted.protein
            /\ new.carbs = extracted.carbs
            /\ new.fat = extracted.fat
            /\ new.originalText = extracted.originalText
            /\ statsOf(after).consumedCals =
                 JsAdd(statsOf(before).consumedCals, extracted.calories)
            /\ before.meals = <<>> =>
                 statsOf(after).consumedCals = extracted.calories
    ]_vars

\* handleAddMeal has returned with success on a day whose only stored meal is
\* the one it added, nothing being in flight
C13_Witness ==
  /\ tasks = <<>>
  /\ lastDone.kind = "addMeal" /\ lastDone.outcome = "ok"
  /\ LET day == FetchFrom(meals, workouts, todayStr)
     IN /\ Len(day.meals) = 1
        /\ day.meals[1].id \in {StoreId(1), StoreId(2)}
        /\ WellFormedMeal(day.meals[1])
        /\ statsOf(day).consumedCals = day.meals[1].calories
        /\ day.meals[1].calories.n > 0

\* the config of the request a handler invocation is awaiting the answer of
RequestConfig(task) ==
  CASE task.kind = "addMeal" ->
         IF Truthy(task.selectedImage) THEN analyzeMealWithImageConfig
         ELSE analyzeMealConfig
    [] task.kind = "addWorkout" -> analyzeWorkoutConfig
    [] task.kind = "summary" -> getDailyInsightConfig

\* C14: every request awaited on a structured path (addMeal, addWorkout)
\* carries a schema and temperature 0, and every request on a prose path
\* (getDailyInsight awaited by generateSummary, getDietaryAdvice) carries no
\* schema and a temperature other than 0.
C14_SchemaAndTemperatureSplit ==
  /\ ~getDietaryAdviceConfig.responseSchema
  /\ getDietaryAdviceConfig.temperature # 0
  /\ \A i \in 1..Len(tasks) :
       tasks[i].pc = "analyze" =>
         LET config == RequestConfig(tasks[i])
         IN IF tasks[i].kind \in AddKinds
            THEN config.responseSchema /\ config.temperature = 0
            ELSE ~config.responseSchema /\ config.temperature # 0

\* C15: when the remote calls are answered, a set isAnalyzing returns to
\* false; it is false whenever handleAddMeal, handleAddWorkout or
\* generateSummary returns; and a submission that failed can be made again:
\* with the modal and its input as they were, the submit button is enabled.
C15_BusyFlagIsReleased ==
  /\ isAnalyzing ~> ~isAnalyzing
  /\ [][ Returns(AddKinds \cup {"summary"}) => ~isAnalyzing' ]_vars
  /\ [][ /\ Returns(AddKinds)
         /\ lastDone'.outcome = "failed"
         /\ ModalOpen
         /\ IF isLoggingMeal
            THEN Trim(inputText) # "" \/ Truthy(selectedImage)
            ELSE Trim(inputText) # ""
         => SubmitEnabled' ]_vars

\* a submission has failed and can be made again
C15_Witness ==
  /\ lastDone.kind \in AddKinds
  /\ lastDone.outcome = "failed"
  /\ ~isAnalyzing
  /\ SubmitEnabled
  /\ CanStart
  /\ tasks = <<>>

\* a handler invocation awaits the AI service / the store
AwaitsAI == \E i \in 1..Len(tasks) : tasks[i].pc = "analyze"

AwaitsStore ==
  \E i \in 1..Len(tasks) :
    tasks[i].pc \in {"queryMeals", "queryWorkouts", "insert", "delete"}

\* C16: whatever the environment, by the time a call to the AI service is
\* awaited the absence of the AI key has left a message on the console, and
\* by the time a store call is awaited the absence of the store's endpoint or
\* key has: the console differs from that of the environment with the secret.
C16_MissingSecretsLoggedAtStartup ==
  \A env \in Envs :
    /\ AwaitsAI /\ ~env.VITE_GEMINI_API_KEY =>
         StartupLog(env) # StartupLog([env EXCEPT !.VITE_GEMINI_API_KEY = TRUE])
    /\ AwaitsStore /\ (~env.VITE_SUPABASE_URL \/ ~env.VITE_SUPABASE_ANON_KEY) =>
         StartupLog(env) # StartupLog([env EXCEPT !.VITE_SUPABASE_URL = TRUE,
                                                  !.VITE_SUPABASE_ANON_KEY = TRUE])

\* C17: when one of the two queries of fetchDailyData errs and the other
\* answers with the rows of the date, the result has no meals and no workouts
\* and equals the result for a date without records; so it is for every date
\* of the store, and for the result loadFullHistory receives.
C17_PartialFailureDiscardsBoth ==
  /\ [](\A date \in {todayStr, ISODate(0 - DayLen)} :
          \A mealsError, workoutsError \in BOOLEAN :
            mealsError # workoutsError =>
              LET day == FetchNow(date, mealsError, workoutsError)
              IN /\ day.meals = <<>>
                 /\ day.workouts = <<>>
                 /\ day = FetchFrom(<<>>, <<>>, date))
  /\ [][ \A i \in 1..Len(tasks) :
           /\ At(i, "load", "queryWorkouts")
           /\ tasks' = Without(tasks, i)
           /\ Returns({"load"})
           /\ \/ tasks[i].temp.error
              \/ /\ StoreSelectByDate(workouts, todayStr) # <<>>
                 /\ currentDayOf(history', todayStr).workouts = <<>>
           => currentDayOf(history', todayStr) = FetchFrom(<<>>, <<>>, todayStr)
       ]_vars

\* the load has put an empty day into history although the store holds
\* today's meals and workouts
C17_Witness ==
  /\ lastDone.kind = "load"
  /\ started = 0
  /\ HasDate(history, todayStr)
  /\ currentDay.meals = <<>> /\ currentDay.workouts = <<>>
  /\ StoreSelectByDate(meals, todayStr) # <<>>
  /\ StoreSelectByDate(workouts, todayStr) # <<>>

\* the records of a sequence
Elements(records) == {records[k] : k \in 1..Len(records)}

\* after is before without the records that have the id
RemovedExactly(before, after, id) ==
  /\ Elements(after) = {r \in Elements(before) : r.id # id}
  /\ Len(after) = Cardinality({k \in 1..Len(before) : before[k].id # id})

\* C18: when handleDeleteMeal(id) / handleDeleteWorkout(id) returns with
\* success, history being as it was at the click and nothing else in flight,
\* today's meals (workouts) in history have lost exactly the records with the
\* id, today's other list and the entries of other dates are as they were, and
\* isAnalyzing, isLoggingMeal and isLoggingWorkout are unchanged.
C18_DeleteFrame ==
  [][ /\ Len(tasks) = 1
      /\ tasks[1].kind \in DeleteKinds
      /\ Returns(DeleteKinds)
      /\ lastDone'.outcome = "ok"
      /\ tasks[1].history = history
      => /\ Len(history') = Len(history)
         /\ \A k \in 1..Len(history) :
              IF history[k].date # todayStr
              THEN history'[k] = history[k]
              ELSE /\ history'[k].date = todayStr
                   /\ history'[k].calorieGoal = history[k].calorieGoal
                   /\ history'[k].proteinGoal = history[k].proteinGoal
                   /\ IF tasks[1].kind = "deleteMeal"
                      THEN /\ RemovedExactly(history[k].meals,
                                             history'[k].meals, tasks[1].id)
                           /\ history'[k].workouts = history[k].workouts
                      ELSE /\ RemovedExactly(history[k].workouts,
                                             history'[k].workouts, tasks[1].id)
                           /\ history'[k].meals = history[k].meals
         /\ isAnalyzing' = isAnalyzing
         /\ isLoggingMeal' = isLoggingMeal
         /\ isLoggingWorkout' = isLoggingWorkout
    ]_vars

\* a delete of the loaded meal has returned with success and has left the
\* meal added before it and the loaded workout in today's history
C18_Witness ==
  /\ tasks = <<>>
  /\ lastDone.kind = "deleteMeal" /\ lastDone.outcome = "ok"
  /\ Ids(currentDay.meals) = {StoreId(1)}
  /\ Ids(currentDay.workouts) = {"w1"}

\* the ids of the records a history holds
HistoryIds(h) == {r.id : r \in AllMeals(h) \cup AllWorkouts(h)}

\* the ids of records that a delete handler has removed: assigned by the
\* store and no longer the id of a row
DeletedIds == StoreAssignedIds \ (Ids(meals) \cup Ids(workouts))

\* C19: a record that a delete handler has removed from the store and from
\* history is not put back into history by any later step.
C19_DeletedStaysDeleted ==
  [][ \A id \in DeletedIds :
        id \notin HistoryIds(history) => id \notin HistoryIds(history') ]_vars

\* the ids the store assigned to the records added by handleAddMeal and
\* handleAddWorkout
AddedIds == {StoreId(n) : n \in 1..(nextId - 1)}

\* C20: a record that an add handler has put into history stays in history
\* in every step after which its row is still in the store.
C20_AddedStaysInHistory ==
  [][ \A id \in AddedIds :
        /\ id \in HistoryIds(history)
        /\ id \in Ids(meals') \cup Ids(workouts')
        => id \in HistoryIds(history') ]_vars

\* C21: in every reachable state history holds at most one entry per date,
\* whatever the order in which the initial load, the add handlers and the
\* delete handlers have written it.
C21_OneEntryPerDate ==
  \A i, j \in 1..Len(history) : history[i].date = history[j].date => i = j

\* the load has finished after an add handler had put its record into history
\* (the load wrote last, onto an entry for today that the add had made)
C21_Witness ==
  /\ lastDone.kind = "load"
  /\ lastDone.n >= 2
  /\ nextId > 1
  /\ Submissions = {}
  /\ HasDate(history, todayStr)
  /\ Len(history) = 1

\* the instants of one week, Thursday to Wednesday
Instants == 0..(7 * DayLen - 1)

\* the 7 date keys weeklyData looks history up with, in a render at instant t
WeekKeys(t, tz) ==
  LET monday == LocalDay(t, tz) - DiffToMonday(GetDay(LocalDay(t, tz)))
  IN [k \in 1..7 |-> WeekKey(monday + (k - 1), tz)]

\* C22: at every instant and in every time zone, the UTC date of the instant
\* (todayStr of an application mounted then) is one of the 7 date keys of
\* weeklyData, and it is the key of the entry named with the local weekday of
\* the instant.
C22_TodayUnderTodaysWeekday ==
  \A t \in Instants : \A tz \in TimeZones :
    LET keys == WeekKeys(t, tz)
        week == weeklyData(history, t, tz)
    IN /\ \E k \in 1..7 : keys[k] = ISODate(t)
       /\ \A k \in 1..7 :
            week[k].name = WeekdayShort(LocalDay(t, tz)) => keys[k] = ISODate(t)

\* C23: every row written by handleAddMeal or handleAddWorkout carries the UTC
\* date of its own timestamp as its date, and the history entry that holds the
\* record is the entry of that date, however long the application has been
\* open since it was mounted.
C23_StoredUnderDayOfTimestamp ==
  /\ \A r \in Rows(meals) : r.id \in AddedIds => r.date = ISODate(r.timestamp)
  /\ \A r \in Rows(workouts) :
       r.id \in AddedIds => r.date = ISODate(r.timestamp)
  /\ \A k \in 1..Len(history) :
       /\ \A j \in 1..Len(history[k].meals) :
            history[k].meals[j].id \in AddedIds
            => history[k].date = ISODate(history[k].meals[j].timestamp)
       /\ \A j \in 1..Len(history[k].workouts) :
            history[k].workouts[j].id \in AddedIds
            => history[k].date = ISODate(history[k].workouts[j].timestamp)

====
